---- MODULE Spec2Model ----
(***************************************************************************)
(* A model of the ASUS ROG Aura Terminal HID class of this repository: the *)
(* later engine (src/src/lib.rs with src/src/aura.rs).  The engine holds a *)
(* one-slot mailbox (next_message) and a ring buffer of pending responses  *)
(* (data_rdy).  poll() pulls at most one output report from the transport, *)
(* handles it and drains the ring buffer; poll_next_message() takes the    *)
(* mailbox.  The transport (usbd-hid) is the environment: what it delivers *)
(* and how many submissions it accepts per cycle are chosen freely.        *)
(***************************************************************************)
EXTENDS Integers, Sequences, FiniteSets, TLC

(***************************************************************************)
(* Bounds of the model.                                                    *)
(***************************************************************************)
\* The number of output reports the transport delivers in one behaviour.
MaxReports == 5
\* The number of reports delivered in a behaviour of the decoding
\* specification.
MaxDecodeReports == 2
\* The number of reports delivered in a behaviour of the codec
\* specification.
MaxCodecReports == 1
\* The number of reports delivered in a behaviour of the earlier engine.
MaxEarlyReports == 2

(***************************************************************************)
(* Program constants (src/src/aura.rs, mod constants).                     *)
(***************************************************************************)
AURA_HID_REPORT_ID == 236
AURA_MAX_DIRECT_LED_COUNT == 20
AURA_FIRMWARE_VERSION_LEN == 15
AURA_OUTPUT_REPORT_SIZE == 65
AURA_INPUT_REPORT_SIZE == 64
\* ConstGenericRingBuffer<RogTerminalReadyData, 4>
DATA_RDY_CAPACITY == 4

Byte == 0..255

Min(a, b) == IF a < b THEN a ELSE b

\* x & 0x80 and x & 0x7f on a u8.
BitAnd80(x) == IF x >= 128 THEN 128 ELSE 0
\* A mask that keeps all eight bits.
BitAnd7f_Unmasked(x) == x

BitAnd7f(x) == x % 128

(***************************************************************************)
(* aura.rs: the closed enumerations and their int_enum conversions.        *)
(***************************************************************************)
AuraEffect ==
    [ Off |-> 0, Static |-> 1, Breathing |-> 2, Flashing |-> 3,
      SpectrumCycle |-> 4, Rainbow |-> 5, SpectrumCycleBreathing |-> 6,
      ChaseFade |-> 7, SpectrumCycleChaseFade |-> 8, Chase |-> 9,
      SpectrumCycleChase |-> 10, SpectrumCycleWave |-> 11,
      ChaseRainbowPulse |-> 12, RandomFlicker |-> 13, Music |-> 14,
      Direct |-> 255 ]

AuraOutputReportType ==
    [ FirmwareVersionRequest |-> 130, ConfigTableRequest |-> 176,
      SetEffect |-> 59, SetDirectLeds |-> 64 ]

AuraInputReportType ==
    [ FirmwareVersionRequestOk |-> 2, ConfigTableRequestOk |-> 48 ]

\* IntEnum::try_from: the variant whose discriminant is the code, or Err.
EnumTryFrom(enum, code) ==
    IF \E v \in DOMAIN enum : enum[v] = code
    THEN CHOOSE v \in DOMAIN enum : enum[v] = code
    ELSE "Err"

\* A conversion that falls back to Off for an unknown code.
AuraEffect_try_from_Default(code) ==
    IF EnumTryFrom(AuraEffect, code) = "Err" THEN "Off"
    ELSE EnumTryFrom(AuraEffect, code)

AuraEffect_try_from(code) == EnumTryFrom(AuraEffect, code)

AuraOutputReportType_try_from(code) == EnumTryFrom(AuraOutputReportType, code)

\* &report[lo..hi] as a sequence: bytes lo .. hi-1 of a 0-indexed buffer.
Slice(buf, lo, hi) == [k \in 1..(hi - lo) |-> buf[lo + k - 1]]

\* A bounds check that refuses a slice ending at the end of the buffer.
SliceInBounds_Exclusive(len, lo, hi) == lo <= hi /\ hi < len

\* A slice index panics when its end is beyond the buffer or below its start.
SliceInBounds(len, lo, hi) == lo <= hi /\ hi <= len

\* Colours read from overlapping bytes: the j-th starts at byte j.
rgb_from_raw_slice_Stride1(slice) ==
    [j \in 1..(Len(slice) \div 3) |->
        [r |-> slice[j], g |-> slice[j + 1], b |-> slice[j + 2]]]

\* rgb_from_raw_slice: slice.len() / 3 colours, each three consecutive bytes.
rgb_from_raw_slice(slice) ==
    [j \in 1..(Len(slice) \div 3) |->
        [r |-> slice[3 * (j - 1) + 1],
         g |-> slice[3 * (j - 1) + 2],
         b |-> slice[3 * (j - 1) + 3]]]

(***************************************************************************)
(* lib.rs: static data.                                                    *)
(***************************************************************************)
\* b"AUTA0-S072-0101"
ROG_AURA_DEFAULT_FIRMWARE_VERSION ==
    <<65, 85, 84, 65, 48, 45, 83, 48, 55, 50, 45, 48, 49, 48, 49>>

\* The literal part of CONFIG_TABLE_RESPONSE; const_data! zero-fills the rest.
ConfigTableLiteral ==
    <<AURA_HID_REPORT_ID, AuraInputReportType.ConfigTableRequestOk,
      0, 0, 31, 255, 4, 31, 1, 1,
      0, 90, 1, 100, 1, 1,
      0, 90, 1, 100, 1, 1,
      0, 90, 1, 100, 1, 1,
      0, 90, 1, 100, 1, 3>>

\* const_data!(len, { literal, .. }): a len-byte array, literal then zeros.
const_data(len, literal) ==
    [i \in 0..(len - 1) |-> IF i < Len(literal) THEN literal[i + 1] ELSE 0]

CONFIG_TABLE_RESPONSE == const_data(AURA_INPUT_REPORT_SIZE, ConfigTableLiteral)

None == [tag |-> "None"]

(***************************************************************************)
(* lib.rs: the ring buffer of pending responses.  An entry is the kind of  *)
(* response (RogTerminalReadyData) tagged with req, the arrival number of  *)
(* the request among the accepted response requests; req is bookkeeping of *)
(* the model and is never read by an operation.                            *)
(***************************************************************************)
RogTerminalReadyData == {"FirmwareVersion", "ConfigTable"}

\* A push that grows the buffer beyond its capacity.
RingPush_Unbounded(q, x) == Append(q, x)

\* A push that puts the new entry in front of the pending ones.
RingPush_Front(q, x) ==
    IF Len(q) = DATA_RDY_CAPACITY
    THEN <<x>> \o SubSeq(q, 1, DATA_RDY_CAPACITY - 1) ELSE <<x>> \o q

\* A push that drops the new entry when the buffer is full.
RingPush_DropNewest(q, x) ==
    IF Len(q) = DATA_RDY_CAPACITY THEN q ELSE Append(q, x)

\* ConstGenericRingBuffer::push: when full, the oldest entry is overwritten.
RingPush(q, x) ==
    IF Len(q) = DATA_RDY_CAPACITY THEN Append(Tail(q), x) ELSE Append(q, x)

\* ArrayVec::from_array_len(data, len): the first len slots of the array.
ArrayVec_from_array_len(data, len) == SubSeq(data, 1, len)

(***************************************************************************)
(* handle_report: the effect of one output report on (data_rdy,            *)
(* next_message).  abort is TRUE when the Rust code panics (a slice out of *)
(* bounds, copy_from_slice with different lengths); outcome names the      *)
(* branch taken.                                                           *)
(***************************************************************************)
SetDirectLeds(data_rdy, next_message, report) ==
    LET apply    == BitAnd80(report[2]) > 0
        channel  == BitAnd7f(report[2])
        offset   == report[3]
        num_leds == IF report[4] > AURA_MAX_DIRECT_LED_COUNT
                    THEN AURA_MAX_DIRECT_LED_COUNT ELSE report[4]
        end      == 5 + num_leds * 3
        unchanged == [data_rdy |-> data_rdy, next_message |-> next_message]
    IN  IF ~SliceInBounds(AURA_OUTPUT_REPORT_SIZE, 5, end)
        THEN unchanged @@ [abort |-> TRUE, outcome |-> "SetDirectLeds"]
        ELSE
        LET colours == rgb_from_raw_slice(Slice(report, 5, end))
        IN  IF Len(colours) # num_leds
            THEN unchanged @@ [abort |-> TRUE, outcome |-> "SetDirectLeds"]
            ELSE
            LET led_data == [k \in 1..AURA_MAX_DIRECT_LED_COUNT |->
                                IF k <= num_leds THEN colours[k]
                                ELSE [r |-> 0, g |-> 0, b |-> 0]]
            IN  [data_rdy |-> data_rdy,
                 next_message |->
                     [tag |-> "UpdateLeds", channel |-> channel,
                      apply |-> apply, offset |-> offset,
                      led_data |-> ArrayVec_from_array_len(led_data, num_leds)],
                 abort |-> FALSE, outcome |-> "SetDirectLeds"]

\* A SetEffect arm that keeps an unread command instead of replacing it.
SetEffect_KeepUnread(data_rdy, next_message, report) ==
    [data_rdy |-> data_rdy,
     next_message |->
         IF next_message # [tag |-> "None"]
         THEN next_message
         ELSE [tag |-> "SetEffect", channel |-> report[2],
               effect |-> AuraEffect_try_from(report[4])],
     abort |-> FALSE,
     outcome |-> IF AuraEffect_try_from(report[4]) = "Err"
                 THEN "UnknownEffect" ELSE "SetEffect"]

\* A SetEffect arm that clears bit 7 of the channel byte.
SetEffect_MaskedChannel(data_rdy, next_message, report) ==
    [data_rdy |-> data_rdy,
     next_message |->
         IF AuraEffect_try_from(report[4]) = "Err" THEN next_message
         ELSE [tag |-> "SetEffect", channel |-> report[2] % 128,
               effect |-> AuraEffect_try_from(report[4])],
     abort |-> FALSE,
     outcome |-> IF AuraEffect_try_from(report[4]) = "Err"
                 THEN "UnknownEffect" ELSE "SetEffect"]

\* A SetEffect arm that also pushes a response request.
SetEffect_Enqueue(data_rdy, next_message, report) ==
    [data_rdy |-> RingPush(data_rdy, [kind |-> "ConfigTable", req |-> 0]),
     next_message |->
         IF AuraEffect_try_from(report[4]) = "Err" THEN next_message
         ELSE [tag |-> "SetEffect", channel |-> report[2],
               effect |-> AuraEffect_try_from(report[4])],
     abort |-> FALSE,
     outcome |-> IF AuraEffect_try_from(report[4]) = "Err"
                 THEN "UnknownEffect" ELSE "SetEffect"]

SetEffect(data_rdy, next_message, report) ==
    LET channel     == report[2]
        effect_code == report[4]
        effect      == AuraEffect_try_from(effect_code)
    IN  IF effect = "Err"
        THEN [data_rdy |-> data_rdy, next_message |-> next_message,
              abort |-> FALSE, outcome |-> "UnknownEffect"]
        ELSE [data_rdy |-> data_rdy,
              next_message |->
                  [tag |-> "SetEffect", channel |-> channel, effect |-> effect],
              abort |-> FALSE, outcome |-> "SetEffect"]

handle_report(data_rdy, next_message, report, req) ==
    LET report_id   == report[0]
        report_type == AuraOutputReportType_try_from(report[1])
    IN  IF report_id # AURA_HID_REPORT_ID
        THEN [data_rdy |-> data_rdy, next_message |-> next_message,
              abort |-> FALSE, outcome |-> "UnrecognizedReportId"]
        ELSE IF report_type = "Err"
        THEN [data_rdy |-> data_rdy, next_message |-> next_message,
              abort |-> FALSE, outcome |-> "UnrecognizedType"]
        ELSE IF report_type = "FirmwareVersionRequest"
        THEN [data_rdy |-> RingPush(data_rdy,
                              [kind |-> "FirmwareVersion", req |-> req]),
              next_message |-> next_message,
              abort |-> FALSE, outcome |-> "FirmwareVersionRequest"]
        ELSE IF report_type = "ConfigTableRequest"
        THEN [data_rdy |-> RingPush(data_rdy,
                              [kind |-> "ConfigTable", req |-> req]),
              next_message |-> next_message,
              abort |-> FALSE, outcome |-> "ConfigTableRequest"]
        ELSE IF report_type = "SetEffect"
        THEN SetEffect(data_rdy, next_message, report)
        ELSE SetDirectLeds(data_rdy, next_message, report)

(***************************************************************************)
(* push_ready_data: the drain loop.  The transport accepts the first       *)
(* `accept` submissions of this call and fails the next one with `err`;    *)
(* the `?` leaves the loop at the first failure, before the dequeue.       *)
(* out is the sequence of input reports handed to the transport, each with *)
(* the entry it answers.                                                   *)
(***************************************************************************)
\* A firmware-version report with the string one byte further on.
FirmwareVersionReport_Shifted(firmware_version) ==
    [i \in 0..(AURA_INPUT_REPORT_SIZE - 1) |->
        IF i = 0 THEN AURA_HID_REPORT_ID
        ELSE IF i = 1 THEN AuraInputReportType.FirmwareVersionRequestOk
        ELSE IF i >= 3 /\ i < 18 THEN firmware_version[i - 2]
        ELSE 0]

\* The firmware-version input report built in the FirmwareVersion arm.
FirmwareVersionReport(firmware_version) ==
    [i \in 0..(AURA_INPUT_REPORT_SIZE - 1) |->
        IF i = 0 THEN AURA_HID_REPORT_ID
        ELSE IF i = 1 THEN AuraInputReportType.FirmwareVersionRequestOk
        ELSE IF i >= 2 /\ i < 17 THEN firmware_version[i - 1]
        ELSE 0]

\* An encoding that stamps the report with the entry's arrival number.
EncodeReadyData_Stamped(elem, firmware_version) ==
    [i \in 0..(AURA_INPUT_REPORT_SIZE - 1) |->
        IF i = AURA_INPUT_REPORT_SIZE - 1 THEN elem.req
        ELSE IF elem.kind = "FirmwareVersion"
        THEN FirmwareVersionReport(firmware_version)[i]
        ELSE CONFIG_TABLE_RESPONSE[i]]

EncodeReadyData(elem, firmware_version) ==
    IF elem.kind = "FirmwareVersion"
    THEN FirmwareVersionReport(firmware_version)
    ELSE CONFIG_TABLE_RESPONSE

\* The loop of push_ready_data, with the reports submitted so far in out.
\* attempts counts the calls of push_raw_input.
RECURSIVE DrainLoop(_, _, _, _, _)
DrainLoop(data_rdy, out, firmware_version, accept, err) ==
    IF data_rdy = <<>>
    THEN [data_rdy |-> data_rdy, out |-> out, result |-> "Ok",
          attempts |-> Len(out)]
    ELSE IF accept = 0
    THEN [data_rdy |-> data_rdy, out |-> out, result |-> err,
          attempts |-> Len(out) + 1]
    ELSE DrainLoop(Tail(data_rdy),
                   Append(out,
                          [bytes |-> EncodeReadyData(Head(data_rdy),
                                                     firmware_version),
                           kind |-> Head(data_rdy).kind,
                           req |-> Head(data_rdy).req]),
                   firmware_version, accept - 1, err)

\* A drain that dequeues the entry whose submission failed.
push_ready_data_DropFailed(data_rdy, firmware_version, accept, err) ==
    LET d == DrainLoop(data_rdy, <<>>, firmware_version, accept, err)
    IN  IF d.result = "Ok" THEN d
        ELSE [d EXCEPT !.data_rdy = Tail(d.data_rdy)]

\* A drain that leaves the last entry it submitted in the queue.
push_ready_data_KeepLast(data_rdy, firmware_version, accept, err) ==
    LET d == DrainLoop(data_rdy, <<>>, firmware_version, accept, err)
    IN  IF d.result = "Ok" /\ data_rdy # <<>>
        THEN [d EXCEPT !.data_rdy = <<data_rdy[Len(data_rdy)]>>]
        ELSE d

push_ready_data(data_rdy, firmware_version, accept, err) ==
    DrainLoop(data_rdy, <<>>, firmware_version, accept, err)

(***************************************************************************)
(* UsbClass::poll as a function of the engine state and of what the        *)
(* transport does in this cycle: pulled is the result of pull_raw_report,  *)
(* accept and err describe push_raw_input as in push_ready_data.  mid_rdy  *)
(* is data_rdy between handle_report and push_ready_data.  When            *)
(* handle_report panics, the drain is not reached.                         *)
(***************************************************************************)
PollDrain(handled, firmware_version, accept, err) ==
    IF handled.abort
    THEN [data_rdy |-> handled.data_rdy,
          next_message |-> handled.next_message, abort |-> TRUE,
          outcome |-> handled.outcome, mid_rdy |-> handled.data_rdy,
          out |-> <<>>, drain |-> "NotRun", attempts |-> 0]
    ELSE LET drained == push_ready_data(handled.data_rdy, firmware_version,
                                        accept, err)
         IN  [data_rdy |-> drained.data_rdy,
              next_message |-> handled.next_message, abort |-> FALSE,
              outcome |-> handled.outcome, mid_rdy |-> handled.data_rdy,
              out |-> drained.out, drain |-> drained.result,
              attempts |-> drained.attempts]

\* A poll that drains the ring buffer before it handles the report.
poll_DrainFirst(data_rdy, next_message, firmware_version, pulled, req, accept, err) ==
    LET drained == push_ready_data(data_rdy, firmware_version, accept, err)
        handled == IF pulled.ok
                   THEN handle_report(drained.data_rdy, next_message,
                                      pulled.report, req)
                   ELSE [data_rdy |-> drained.data_rdy,
                         next_message |-> next_message,
                         abort |-> FALSE, outcome |-> "NoReport"]
    IN  [data_rdy |-> handled.data_rdy,
         next_message |-> handled.next_message, abort |-> handled.abort,
         outcome |-> handled.outcome, mid_rdy |-> handled.data_rdy,
         out |-> drained.out, drain |-> drained.result,
         attempts |-> drained.attempts]

\* A poll that returns as soon as pull_raw_report fails.
poll_ReturnOnPullError(data_rdy, next_message, firmware_version, pulled, req, accept, err) ==
    IF pulled.ok
    THEN PollDrain(handle_report(data_rdy, next_message, pulled.report, req),
                   firmware_version, accept, err)
    ELSE [data_rdy |-> data_rdy, next_message |-> next_message,
          abort |-> FALSE, outcome |-> "NoReport", mid_rdy |-> data_rdy,
          out |-> <<>>, drain |-> "Ok", attempts |-> 0]

poll(data_rdy, next_message, firmware_version, pulled, req, accept, err) ==
    PollDrain(IF pulled.ok
              THEN handle_report(data_rdy, next_message, pulled.report, req)
              ELSE [data_rdy |-> data_rdy, next_message |-> next_message,
                    abort |-> FALSE, outcome |-> "NoReport"],
              firmware_version, accept, err)

\* A read that returns the command and leaves it in the mailbox.
poll_next_message_Peek(next_message) ==
    [ret |-> next_message, next_message |-> next_message]

\* A read that empties the mailbox and returns nothing.
poll_next_message_ClearOnly(next_message) ==
    [ret |-> [tag |-> "None"], next_message |-> [tag |-> "None"]]

\* poll_next_message: Option::take on the mailbox.
poll_next_message(next_message) ==
    [ret |-> next_message, next_message |-> None]

(***************************************************************************)
(* The earlier engine (src/lib.rs): its constants and operations.          *)
(***************************************************************************)
AURA_REPORT_ID == 236
AURA_REQUEST_FIRMWARE_VERSION == 130
AURA_REQUEST_CONFIG_TABLE == 176
AURA_REQUEST_SET_LEDS == 64
EARLY_REPORT_BUFFER_SIZE == 65

FIRMWARE_VERSION_RESPONSE ==
    const_data(64, <<AURA_REPORT_ID, 2>>
                       \o <<65, 85, 84, 65, 48, 45, 83, 48, 55, 50, 45, 48,
                            49, 48, 49>>)

\* The AURA_REQUEST_SET_LEDS arm: the slice is &buf[5..5 + num_leds], the
\* destination led_data[0..num_leds]; copy_from_slice panics when the two
\* lengths differ.
early_SetLeds(data_rdy, next_message, buf) ==
    LET apply    == BitAnd80(buf[2]) > 0
        offset   == buf[3]
        num_leds == IF buf[4] > AURA_MAX_DIRECT_LED_COUNT
                    THEN AURA_MAX_DIRECT_LED_COUNT ELSE buf[4]
        end      == 5 + num_leds
        unchanged == [data_rdy |-> data_rdy, next_message |-> next_message]
    IN  IF ~SliceInBounds(EARLY_REPORT_BUFFER_SIZE, 5, end)
        THEN unchanged @@ [abort |-> TRUE, outcome |-> "SetLeds"]
        ELSE
        LET colours == rgb_from_raw_slice(Slice(buf, 5, end))
        IN  IF Len(colours) # num_leds
            THEN unchanged @@ [abort |-> TRUE, outcome |-> "SetLeds"]
            ELSE
            LET led_data == [k \in 1..AURA_MAX_DIRECT_LED_COUNT |->
                                IF k <= num_leds THEN colours[k]
                                ELSE [r |-> 0, g |-> 0, b |-> 0]]
            IN  [data_rdy |-> data_rdy,
                 next_message |->
                     [tag |-> "UpdateLeds", apply |-> apply, offset |-> offset,
                      led_data |-> ArrayVec_from_array_len(led_data, num_leds)],
                 abort |-> FALSE, outcome |-> "SetLeds"]

early_handle_report(data_rdy, next_message, buf, req) ==
    IF buf[0] # AURA_REPORT_ID
    THEN [data_rdy |-> data_rdy, next_message |-> next_message,
          abort |-> FALSE, outcome |-> "UnrecognizedReportId"]
    ELSE IF buf[1] = AURA_REQUEST_FIRMWARE_VERSION
    THEN [data_rdy |-> RingPush(data_rdy,
                          [kind |-> "FirmwareVersion", req |-> req]),
          next_message |-> next_message,
          abort |-> FALSE, outcome |-> "FirmwareVersionRequest"]
    ELSE IF buf[1] = AURA_REQUEST_CONFIG_TABLE
    THEN [data_rdy |-> RingPush(data_rdy,
                          [kind |-> "ConfigTable", req |-> req]),
          next_message |-> next_message,
          abort |-> FALSE, outcome |-> "ConfigTableRequest"]
    ELSE IF buf[1] = AURA_REQUEST_SET_LEDS
    THEN early_SetLeds(data_rdy, next_message, buf)
    ELSE [data_rdy |-> data_rdy, next_message |-> next_message,
          abort |-> FALSE, outcome |-> "UnrecognizedType"]

\* The earlier push_ready_data: the constant report of the entry's kind.
RECURSIVE early_push_ready_data(_, _, _, _)
early_push_ready_data(data_rdy, out, accept, err) ==
    IF data_rdy = <<>>
    THEN [data_rdy |-> data_rdy, out |-> out, result |-> "Ok",
          attempts |-> Len(out)]
    ELSE IF accept = 0
    THEN [data_rdy |-> data_rdy, out |-> out, result |-> err,
          attempts |-> Len(out) + 1]
    ELSE early_push_ready_data(
             Tail(data_rdy),
             Append(out,
                    [bytes |-> IF Head(data_rdy).kind = "FirmwareVersion"
                               THEN FIRMWARE_VERSION_RESPONSE
                               ELSE CONFIG_TABLE_RESPONSE,
                     kind |-> Head(data_rdy).kind,
                     req |-> Head(data_rdy).req]),
             accept - 1, err)

\* The earlier UsbClass::poll.
early_UsbClass_poll(data_rdy, next_message, pulled, req, accept, err) ==
    LET handled == IF pulled.ok
                   THEN early_handle_report(data_rdy, next_message,
                                            pulled.report, req)
                   ELSE [data_rdy |-> data_rdy, next_message |-> next_message,
                         abort |-> FALSE, outcome |-> "NoReport"]
    IN  IF handled.abort
        THEN handled @@ [mid_rdy |-> handled.data_rdy, out |-> <<>>,
                         drain |-> "NotRun", attempts |-> 0]
        ELSE LET drained == early_push_ready_data(handled.data_rdy, <<>>,
                                                  accept, err)
             IN  [data_rdy |-> drained.data_rdy,
                  next_message |-> handled.next_message, abort |-> FALSE,
                  outcome |-> handled.outcome, mid_rdy |-> handled.data_rdy,
                  out |-> drained.out, drain |-> drained.result,
                  attempts |-> drained.attempts]

\* The earlier inherent poll(): take the mailbox, then drain.
early_poll(data_rdy, next_message, accept, err) ==
    LET drained == early_push_ready_data(data_rdy, <<>>, accept, err)
    IN  [ret |-> next_message, next_message |-> None,
         data_rdy |-> drained.data_rdy, out |-> drained.out,
         drain |-> drained.result, attempts |-> drained.attempts]

(***************************************************************************)
(* The inputs: 65-byte output reports, indexed from 0 as in the source.    *)
(***************************************************************************)
\* Bytes 5..64 of a report: all zero; the two colours FF0000 00FF00, then
\* the index; a pattern in which every three bytes differ.
Payload(p, i) ==
    IF p = 0 THEN 0
    ELSE IF p = 1 THEN (IF i \in {5, 9} THEN 255 ELSE IF i < 11 THEN 0 ELSE i)
    ELSE (i * 37 + 11) % 256

MkReport(b0, b1, b2, b3, b4, p) ==
    [i \in 0..(AURA_OUTPUT_REPORT_SIZE - 1) |->
        IF i = 0 THEN b0 ELSE IF i = 1 THEN b1 ELSE IF i = 2 THEN b2
        ELSE IF i = 3 THEN b3 ELSE IF i = 4 THEN b4 ELSE Payload(p, i)]

\* Reports the engine rejects: a wrong report id with every request type,
\* an unknown request type, a SetEffect with an unknown effect code.
BadIdReports ==
    {MkReport(b0, b1, 129, 0, 2, 1) : b0 \in {0, 237}, b1 \in {130, 176, 59, 64}}
BadTypeReports == {MkReport(236, b1, 129, 0, 2, 1) : b1 \in {0, 65, 131}}
BadEffectReports == {MkReport(236, 59, 1, 0, b4, 1) : b4 \in {15, 254}}
RejectedReports == BadIdReports \cup BadTypeReports \cup BadEffectReports

RequestReports == {MkReport(236, b1, 0, 0, 0, 0) : b1 \in {130, 176}}

\* SetEffect and SetDirectLeds reports over both values of bit 7 of byte 2,
\* known effect codes, LED counts around the maximum, and two payloads.
SetEffectReports ==
    {MkReport(236, 59, b2, 0, b4, 0) : b2 \in {1, 129}, b4 \in {0, 14, 255}}
SetDirectLedsReports ==
    {MkReport(236, 64, h[1], h[2], n, p) :
        h \in {<<129, 0>>, <<1, 7>>}, n \in {0, 1, 2, 19, 20, 21, 255},
        p \in {1, 2}}

\* Requests whose bytes 2..64 look like a command.
NoisyRequestReports ==
    {MkReport(236, b1, v[1], v[2], v[3], v[4]) :
        b1 \in {130, 176}, v \in {<<129, 7, 255, 2>>, <<59, 64, 15, 1>>}}

\* The reports of the decoding specification.
WideReports ==
    RejectedReports \cup RequestReports \cup NoisyRequestReports
        \cup SetEffectReports \cup SetDirectLedsReports

\* The commands of the main specification.
CommandReports ==
    { MkReport(236, 59, 1, 0, 1, 0),
      MkReport(236, 64, 129, 0, 2, 1) }

\* The reports of the main specification: one rejected report of each kind,
\* the two requests, the commands.
Reports ==
    { MkReport(0, 64, 129, 0, 2, 1), MkReport(236, 65, 129, 0, 2, 1),
      MkReport(236, 59, 1, 0, 15, 1) }
        \cup RequestReports \cup CommandReports

\* Every effect code next to a known one, with every kind of channel byte,
\* over two settings of byte 3 and of bytes 5..64.
EffectCodeReports ==
    {MkReport(236, 59, b2, v[1], b4, v[2]) :
        b2 \in {1, 129, 255}, v \in {<<0, 0>>, <<9, 2>>},
        b4 \in (0..15) \cup {254, 255}}

\* A SetDirectLeds report for every value of the LED count byte.
DirectLedCountReports ==
    {MkReport(236, 64, n, 255 - n, n, 2) : n \in Byte}

\* The reports of the codec specification.
CodecReports == EffectCodeReports \cup DirectLedCountReports

\* The errors of usbd-hid's pull_raw_report and push_raw_input.
PullErrors == {"WouldBlock", "BufferOverflow"}
PushErrors == {"WouldBlock", "InvalidState"}

PullResults(reports) ==
    {[ok |-> TRUE, report |-> r] : r \in reports}
        \cup {[ok |-> FALSE, err |-> e] : e \in PullErrors}

\* The firmware strings an engine is constructed with.
FirmwareVersions ==
    { ROG_AURA_DEFAULT_FIRMWARE_VERSION,
      [k \in 1..AURA_FIRMWARE_VERSION_LEN |-> 96 + k] }

(***************************************************************************)
(* State.  firmware_version, data_rdy, next_message are the fields of      *)
(* AsusRogTerminalHidClass; aborted is TRUE once the program has panicked. *)
(* The others record the run for the properties: nreports counts the       *)
(* reports pulled and nrequests the response requests accepted (a          *)
(* request's arrival number), expect is the command the last accepted      *)
(* command report decoded to since the last take, overwrote tells that it  *)
(* replaced an unread one, has_returned that some call of                  *)
(* poll_next_message has returned a command, last_sent is the arrival      *)
(* number of the last request answered, owed is, for each kind, the number  *)
(* of requests accepted less the number of reports submitted, last_op is   *)
(* the last operation with what it was given and what it returned or       *)
(* handed to the transport.                                                *)
(***************************************************************************)
VARIABLES firmware_version, data_rdy, next_message, aborted,
          nreports, nrequests, expect, overwrote, has_returned, last_sent,
          owed, last_op

vars == <<firmware_version, data_rdy, next_message, aborted,
          nreports, nrequests, expect, overwrote, has_returned, last_sent,
          owed, last_op>>

\* AsusRogTerminalHidClass::new with the firmware string fw.
InitWith(fws) ==
    /\ firmware_version \in fws
    /\ data_rdy = <<>>
    /\ next_message = None
    /\ aborted = FALSE
    /\ nreports = 0
    /\ nrequests = 0
    /\ expect = None
    /\ overwrote = FALSE
    /\ has_returned = FALSE
    /\ last_sent = 0
    /\ owed = [kind \in RogTerminalReadyData |-> 0]
    /\ last_op = [op |-> "new"]

\* new_with_defaults
Init == InitWith({ROG_AURA_DEFAULT_FIRMWARE_VERSION})

IsCommandOutcome(outcome) == outcome \in {"SetEffect", "SetDirectLeds"}
IsRequestOutcome(outcome) ==
    outcome \in {"FirmwareVersionRequest", "ConfigTableRequest"}
IsRejectedOutcome(outcome) ==
    outcome \in {"UnrecognizedReportId", "UnrecognizedType", "UnknownEffect"}

\* The command a report decodes to, on an engine that holds nothing.
Decoded(report) == handle_report(<<>>, None, report, 0).next_message

\* The kind of response the request arm named by outcome asks for.
RequestedKind(outcome) ==
    IF outcome = "FirmwareVersionRequest" THEN "FirmwareVersion"
    ELSE IF outcome = "ConfigTableRequest" THEN "ConfigTable"
    ELSE "None"

\* owed after an operation that took the branch outcome and submitted out.
OwedAfter(before, outcome, out) ==
    [kind \in RogTerminalReadyData |->
        before[kind] + (IF RequestedKind(outcome) = kind THEN 1 ELSE 0)
            - Cardinality({k \in 1..Len(out) : out[k].kind = kind})]

\* The entry the ring buffer overwrote in handle_report, 0 when none.
EvictedReq(before, mid) ==
    IF before # <<>> /\ mid # <<>> /\ Head(before).req # Head(mid).req
    THEN Head(before).req ELSE 0

\* One poll cycle.
Poll(pulled, accept, err, cap) ==
    /\ ~aborted
    /\ pulled.ok => nreports < cap
    /\ \E p \in {poll(data_rdy, next_message, firmware_version, pulled,
                      nrequests + 1, accept, err)} :
         \E latched \in {pulled.ok /\ ~p.abort /\ IsCommandOutcome(p.outcome)} :
           /\ data_rdy' = p.data_rdy
           /\ next_message' = p.next_message
           /\ aborted' = p.abort
           /\ nreports' = IF pulled.ok THEN nreports + 1 ELSE nreports
           /\ nrequests' = IF IsRequestOutcome(p.outcome)
                           THEN nrequests + 1 ELSE nrequests
           /\ expect' = IF latched THEN Decoded(pulled.report) ELSE expect
           /\ overwrote' = IF latched THEN expect # None ELSE overwrote
           /\ last_sent' = IF p.out # <<>> THEN p.out[Len(p.out)].req
                           ELSE last_sent
           /\ owed' = OwedAfter(owed, p.outcome, p.out)
           /\ last_op' = [op |-> "poll",
                          pulled |-> IF pulled.ok THEN "Ok" ELSE pulled.err,
                          report |-> IF pulled.ok THEN pulled.report ELSE <<>>,
                          outcome |-> p.outcome,
                          req |-> IF IsRequestOutcome(p.outcome)
                                  THEN nrequests + 1 ELSE 0,
                          evicted |-> EvictedReq(data_rdy, p.mid_rdy),
                          mid_rdy |-> p.mid_rdy,
                          out |-> p.out,
                          drain |-> p.drain,
                          attempts |-> p.attempts]
    /\ UNCHANGED <<firmware_version, has_returned>>

\* One call of poll_next_message.
PollNextMessage ==
    /\ ~aborted
    /\ \E t \in {poll_next_message(next_message)} :
           /\ next_message' = t.next_message
           /\ last_op' = [op |-> "take", ret |-> t.ret,
                          discarded |-> overwrote, again |-> has_returned]
           /\ has_returned' = (has_returned \/ t.ret # None)
    /\ expect' = None
    /\ overwrote' = FALSE
    /\ UNCHANGED <<firmware_version, data_rdy, aborted, nreports, nrequests,
                   last_sent, owed>>

PollCycle(reports, cap, accepts, errs) ==
    \E pulled \in PullResults(reports), accept \in accepts, err \in errs :
        Poll(pulled, accept, err, cap)

Next ==
    \/ PollCycle(Reports, MaxReports, 0..DATA_RDY_CAPACITY, PushErrors)
    \/ PollNextMessage

Spec == Init /\ [][Next]_vars

(***************************************************************************)
(* The decoding specification: the same operations over the wide set of    *)
(* reports and both firmware strings, for a few reports, with a transport  *)
(* that accepts every submission of a cycle or none.                       *)
(***************************************************************************)
DecodeInit == InitWith(FirmwareVersions)

DecodeNext ==
    \/ PollCycle(WideReports, MaxDecodeReports, {0, DATA_RDY_CAPACITY},
                 {"WouldBlock"})
    \/ PollNextMessage

DecodeSpec == DecodeInit /\ [][DecodeNext]_vars

(***************************************************************************)
(* The codec specification: the default engine fed with command reports    *)
(* over every effect code and every LED count.  No request arrives, so the *)
(* drain of each cycle finds the ring buffer empty.                        *)
(***************************************************************************)
CodecNext ==
    \/ PollCycle(CodecReports, MaxCodecReports, {DATA_RDY_CAPACITY},
                 {"WouldBlock"})
    \/ PollNextMessage

CodecSpec == Init /\ [][CodecNext]_vars

(***************************************************************************)
(* A fair specification for the response queue, which poll_next_message,   *)
(* rejected reports and command reports leave alone: the reports are the   *)
(* two requests, poll cycles keep occurring, and again and again the       *)
(* transport accepts at least the first submission of a cycle.             *)
(***************************************************************************)
QueueReports == RequestReports

QueueNext ==
    PollCycle(QueueReports, MaxReports, 0..DATA_RDY_CAPACITY, {"WouldBlock"})

\* The last poll cycle met a transport that accepted: it submitted a report,
\* or it had nothing to submit.
AcceptedLast ==
    last_op.op = "poll" /\ (last_op.out # <<>> \/ last_op.drain = "Ok")

FairSpec ==
    Init /\ [][QueueNext]_vars /\ WF_vars(QueueNext) /\ []<>AcceptedLast

(***************************************************************************)
(* The earlier engine (src/lib.rs).  It has the same fields but no         *)
(* firmware string of its own: the firmware-version report is a constant.  *)
(* Its only command is the direct-LED update, without a channel.  Its      *)
(* inherent poll() takes the mailbox and drains the ring buffer.  The      *)
(* variable firmware_version is not read, and expect, overwrote and        *)
(* has_returned are not kept, in its specification.                        *)
(***************************************************************************)
\* The reports of the earlier engine: a direct-LED update for every LED
\* count, the two requests, a wrong report id, an unknown request type.
EarlyReports ==
    DirectLedCountReports \cup RequestReports
        \cup {MkReport(0, 64, 129, 0, 2, 1), MkReport(236, 59, 1, 0, 1, 0)}

EarlyUsbPoll(pulled, accept, err) ==
    /\ ~aborted
    /\ pulled.ok => nreports < MaxEarlyReports
    /\ \E p \in {early_UsbClass_poll(data_rdy, next_message, pulled,
                                     nrequests + 1, accept, err)} :
           /\ data_rdy' = p.data_rdy
           /\ next_message' = p.next_message
           /\ aborted' = p.abort
           /\ nreports' = IF pulled.ok THEN nreports + 1 ELSE nreports
           /\ nrequests' = IF IsRequestOutcome(p.outcome)
                           THEN nrequests + 1 ELSE nrequests
           /\ last_sent' = IF p.out # <<>> THEN p.out[Len(p.out)].req
                           ELSE last_sent
           /\ owed' = OwedAfter(owed, p.outcome, p.out)
           /\ last_op' = [op |-> "poll",
                          pulled |-> IF pulled.ok THEN "Ok" ELSE pulled.err,
                          report |-> IF pulled.ok THEN pulled.report ELSE <<>>,
                          outcome |-> p.outcome,
                          req |-> IF IsRequestOutcome(p.outcome)
                                  THEN nrequests + 1 ELSE 0,
                          evicted |-> EvictedReq(data_rdy, p.mid_rdy),
                          mid_rdy |-> p.mid_rdy,
                          out |-> p.out,
                          drain |-> p.drain,
                          attempts |-> p.attempts]
    /\ UNCHANGED <<firmware_version, expect, overwrote, has_returned>>

EarlyPoll(accept, err) ==
    /\ ~aborted
    /\ \E t \in {early_poll(data_rdy, next_message, accept, err)} :
           /\ data_rdy' = t.data_rdy
           /\ next_message' = t.next_message
           /\ last_sent' = IF t.out # <<>> THEN t.out[Len(t.out)].req
                           ELSE last_sent
           /\ owed' = OwedAfter(owed, "NoReport", t.out)
           /\ last_op' = [op |-> "take", ret |-> t.ret, out |-> t.out,
                          drain |-> t.drain, attempts |-> t.attempts]
    /\ UNCHANGED <<firmware_version, aborted, nreports, nrequests, expect,
                   overwrote, has_returned>>

EarlyNext ==
    \/ \E pulled \in PullResults(EarlyReports),
          accept \in {0, DATA_RDY_CAPACITY} :
           EarlyUsbPoll(pulled, accept, "WouldBlock")
    \/ \E accept \in {0, DATA_RDY_CAPACITY} : EarlyPoll(accept, "WouldBlock")

EarlySpec == Init /\ [][EarlyNext]_vars

(***************************************************************************)
(* Properties.                                                             *)
(***************************************************************************)
\* The entries (kind, req) a sequence of submissions answers.
Answered(out) == [k \in 1..Len(out) |-> [kind |-> out[k].kind, req |-> out[k].req]]

\* C1: a take that follows two or more commands latched with no take in
\* between returns exactly the command decoded from the last of them and
\* leaves the mailbox empty, so that the earlier ones are never returned.
C1_MailboxOverwrite ==
    [][(last_op'.op = "take" /\ overwrote)
          => /\ expect # None
             /\ last_op'.ret = expect
             /\ next_message' = None]_vars

\* A take returned the UpdateLeds command that had replaced an unread one.
C1_Witness ==
    /\ last_op.op = "take"
    /\ last_op.discarded
    /\ last_op.ret.tag = "UpdateLeds"

\* C2: the reports submitted in a poll cycle answer requests in strictly
\* increasing arrival order, all of them later than every request answered
\* in an earlier cycle.
C2_ResponseOrdering ==
    [][last_op'.op = "poll"
          => \A k \in 1..Len(last_op'.out) :
                last_op'.out[k].req >
                    (IF k = 1 THEN last_sent ELSE last_op'.out[k - 1].req)]_vars

\* A cycle that received no request submitted the firmware-version report
\* and then the config-table report, after a cycle had answered another.
C2_Witness ==
    /\ last_op.op = "poll"
    /\ last_op.req = 0
    /\ Len(last_op.out) >= 2
    /\ last_op.out[1].kind = "FirmwareVersion"
    /\ last_op.out[2].kind = "ConfigTable"
    /\ last_op.out[1].req > 1

\* The input report of the end-to-end example: 0xEC, 0x02,
\* 'AUTA0-S072-0101', then zeros, 64 bytes.
DefaultFirmwareReport ==
    [i \in 0..63 |->
        IF i < 17
        THEN <<236, 2, 65, 85, 84, 65, 48, 45, 83, 48, 55, 50, 45, 48, 49,
               48, 49>>[i + 1]
        ELSE 0]

\* bytes is the input report that answers a request of this kind.
MatchingReport(kind, bytes) ==
    /\ DOMAIN bytes = 0..63
    /\ IF kind = "FirmwareVersion"
       THEN bytes = DefaultFirmwareReport
       ELSE bytes[0] = 236 /\ bytes[1] = 48

\* The last poll cycle received the i-th response request, of this kind.
Received(i, kind) ==
    /\ last_op.op = "poll"
    /\ last_op.req = i
    /\ last_op.outcome = (IF kind = "FirmwareVersion"
                          THEN "FirmwareVersionRequest"
                          ELSE "ConfigTableRequest")

\* The last poll cycle submitted the answer to the i-th response request.
SubmittedFor(i, kind) ==
    /\ last_op.op = "poll"
    /\ \E k \in 1..Len(last_op.out) :
          /\ last_op.out[k].req = i
          /\ last_op.out[k].kind = kind
          /\ MatchingReport(kind, last_op.out[k].bytes)

\* The last poll cycle pushed a request onto the full ring buffer, which
\* overwrote the i-th response request.
Evicted(i) == last_op.op = "poll" /\ last_op.evicted = i

\* C3 as stated: every response request received is eventually answered
\* with the matching input report, whatever reports arrive later.
C3_EventualResponse ==
    \A i \in 1..MaxReports, kind \in RogTerminalReadyData :
        Received(i, kind) ~> SubmittedFor(i, kind)

\* C3 as amended: every response request received is eventually answered
\* with the matching input report, unless a later request, pushed while the
\* ring buffer holds four entries, overwrites it first.
C3_EventualResponseUnlessEvicted ==
    \A i \in 1..MaxReports, kind \in RogTerminalReadyData :
        Received(i, kind) ~> (SubmittedFor(i, kind) \/ Evicted(i))

\* A firmware-version request that stayed pending after its own cycle is
\* answered with the example report.
C3_Witness ==
    /\ last_op.op = "poll"
    /\ \E k \in 1..Len(last_op.out) :
          /\ last_op.out[k].kind = "FirmwareVersion"
          /\ last_op.out[k].req # last_op.req
          /\ last_op.out[k].bytes = DefaultFirmwareReport

\* C4: in a poll cycle whose drain met a failed submission, exactly one
\* more submission was attempted than succeeded, and the queue holds the
\* entries not submitted, in order, with the failed entry at the head; in
\* every poll cycle the entries answered followed by the entries left are
\* the queue the drain started from.
C4_FailedSubmissionKeepsEntry ==
    last_op.op = "poll" =>
        /\ Answered(last_op.out) \o data_rdy = last_op.mid_rdy
        /\ last_op.drain \in PushErrors =>
              /\ data_rdy # <<>>
              /\ last_op.attempts = Len(last_op.out) + 1
              /\ Head(data_rdy) = last_op.mid_rdy[Len(last_op.out) + 1]

\* A drain submitted one report, failed on the next with an error other
\* than would-block, and left two entries.
C4_Witness ==
    /\ last_op.op = "poll"
    /\ last_op.drain = "InvalidState"
    /\ Len(last_op.out) = 1
    /\ Len(data_rdy) = 2

\* The known effect codes and the report types of the protocol.
KnownEffectCodes == (0..14) \cup {255}
KnownReportTypes == {130, 176, 59, 64}

\* The reports the protocol rejects.
SpecRejects(report) ==
    \/ report[0] # 236
    \/ report[1] \notin KnownReportTypes
    \/ report[1] = 59 /\ report[4] \notin KnownEffectCodes

\* C5: handling a rejected report changes neither the mailbox nor the
\* response queue.
C5_RejectedChangesNothing ==
    [][(last_op'.op = "poll" /\ last_op'.pulled = "Ok"
            /\ SpecRejects(last_op'.report))
          => /\ next_message' = next_message
             /\ last_op'.mid_rdy = data_rdy
             /\ ~aborted']_vars

\* A SetEffect report with an unknown effect code was handled while a
\* command was latched, and the command is still there.
C5_Witness ==
    /\ last_op.op = "poll"
    /\ last_op.pulled = "Ok"
    /\ last_op.report[0] = 236
    /\ last_op.report[1] = 59
    /\ last_op.report[4] = 254
    /\ next_message.tag = "UpdateLeds"

\* C6: after a poll cycle that received a SetDirectLeds report with LED
\* count N, the mailbox holds an UpdateLeds command with min(N, 20)
\* colours, the i-th being bytes 5+3i, 6+3i, 7+3i of the report.
C6_DirectLedPayload ==
    (last_op.op = "poll" /\ last_op.pulled = "Ok"
        /\ last_op.report[0] = 236 /\ last_op.report[1] = 64)
      => /\ ~aborted
         /\ next_message.tag = "UpdateLeds"
         /\ Len(next_message.led_data) = Min(last_op.report[4], 20)
         /\ \A i \in 0..(Len(next_message.led_data) - 1) :
               next_message.led_data[i + 1] =
                   [r |-> last_op.report[5 + 3 * i],
                    g |-> last_op.report[6 + 3 * i],
                    b |-> last_op.report[7 + 3 * i]]

\* A report asking for 255 LEDs latched 20 colours.
C6_Witness ==
    /\ last_op.op = "poll"
    /\ last_op.pulled = "Ok"
    /\ last_op.report[0] = 236
    /\ last_op.report[1] = 64
    /\ last_op.report[4] = 255
    /\ next_message.tag = "UpdateLeds"
    /\ Len(next_message.led_data) = 20

\* C7: poll_next_message returns what the mailbox held, None when it was
\* empty, leaves the mailbox empty and the response queue as it was, and
\* returns None when no command was decoded since the previous call.
C7_TakeClearsMailbox ==
    [][last_op'.op = "take"
          => /\ last_op'.ret = next_message
             /\ next_message' = None
             /\ data_rdy' = data_rdy
             /\ expect = None => last_op'.ret = None]_vars

\* A call returned a command while responses were pending.
C7_Witness ==
    /\ last_op.op = "take"
    /\ last_op.ret.tag = "SetEffect"
    /\ next_message = None
    /\ Len(data_rdy) >= 2

\* C8: the response queue never holds more than 4 entries, and a request
\* handled while it holds 4 leaves it holding 4: the entries it had
\* (the new one dropped), or all but the oldest followed by the new one.
C8_QueueBound ==
    [][/\ Len(data_rdy') <= 4
       /\ last_op'.op = "poll" =>
             /\ Len(last_op'.mid_rdy) <= 4
             /\ (Len(data_rdy) = 4 /\ IsRequestOutcome(last_op'.outcome)) =>
                   /\ ~aborted'
                   /\ Len(last_op'.mid_rdy) = 4
                   /\ \/ last_op'.mid_rdy = data_rdy
                      \/ /\ SubSeq(last_op'.mid_rdy, 1, 3) = Tail(data_rdy)
                         /\ last_op'.mid_rdy[4].req = last_op'.req]_vars

\* A request was handled while the queue held 4 entries.
C8_Witness ==
    /\ last_op.op = "poll"
    /\ IsRequestOutcome(last_op.outcome)
    /\ Len(last_op.mid_rdy) = 4
    /\ last_op.evicted # 0

\* C9: every poll cycle completes and runs the drain: the drain either
\* empties the queue or stops at a failed submission; a cycle that
\* received no report leaves the mailbox as it was and enqueues nothing.
C9_PollAlwaysDrains ==
    [][last_op'.op = "poll"
          => /\ ~aborted'
             /\ last_op'.drain \in {"Ok"} \cup PushErrors
             /\ last_op'.drain = "Ok" => data_rdy' = <<>>
             /\ last_op'.drain \in PushErrors => data_rdy' # <<>>
             /\ last_op'.pulled # "Ok" =>
                   /\ next_message' = next_message
                   /\ last_op'.mid_rdy = data_rdy]_vars

\* A cycle in which the transport failed with an error other than
\* would-block submitted a pending response.
C9_Witness ==
    /\ last_op.op = "poll"
    /\ last_op.pulled = "BufferOverflow"
    /\ last_op.out # <<>>
    /\ next_message # None

\* C10: under every interleaving of poll cycles and poll_next_message
\* calls, the mailbox holds exactly the last command decoded and not yet
\* returned: a call returns that whole command, or None when there is
\* none, and empties the mailbox; a command latched after a call stays.
C10_TakePollInterleaving ==
    [][/\ last_op'.op = "take" =>
             /\ last_op'.ret = expect
             /\ next_message' = expect'
       /\ last_op'.op = "poll" => next_message' = expect']_vars

\* A command was latched after a call had returned another one, and a
\* second call returned it.
C10_Witness ==
    /\ last_op.op = "take"
    /\ last_op.ret.tag = "SetEffect"
    /\ ~last_op.discarded
    /\ last_op.again

\* The last operation was a poll cycle that received a report with the
\* fixed report id and this request type.
HandledType(type) ==
    /\ last_op.op = "poll"
    /\ last_op.pulled = "Ok"
    /\ last_op.report[0] = 236
    /\ last_op.report[1] = type

\* The report of the end-to-end example: EC 40 81 00 02 FF 00 00 00 FF 00.
IsDirectLedsExample(report) ==
    \A i \in 0..10 :
        report[i] = <<236, 64, 129, 0, 2, 255, 0, 0, 0, 255, 0>>[i + 1]

\* The command of the end-to-end example.
DirectLedsExampleCommand ==
    [tag |-> "UpdateLeds", channel |-> 1, offset |-> 0, apply |-> TRUE,
     led_data |-> <<[r |-> 255, g |-> 0, b |-> 0], [r |-> 0, g |-> 255, b |-> 0]>>]

\* C11: after a poll cycle that received a SetDirectLeds report, the
\* mailbox holds an UpdateLeds command whose apply flag is bit 7 of byte 2,
\* whose channel is bits 0-6 of byte 2 and whose offset is byte 3; the
\* example report EC 40 81 00 02 FF 00 00 00 FF 00 latches channel 1,
\* offset 0, apply, colours (255,0,0), (0,255,0).
C11_DirectLedHeader ==
    HandledType(64) =>
        /\ next_message.tag = "UpdateLeds"
        /\ next_message.apply = (last_op.report[2] \div 128 = 1)
        /\ next_message.channel =
               last_op.report[2] - 128 * (last_op.report[2] \div 128)
        /\ next_message.offset = last_op.report[3]
        /\ IsDirectLedsExample(last_op.report) =>
               next_message = DirectLedsExampleCommand

\* The example report was handled and latched the example command.
C11_Witness ==
    /\ HandledType(64)
    /\ IsDirectLedsExample(last_op.report)
    /\ next_message = DirectLedsExampleCommand

\* The kind of response a request type asks for.
KindOfRequestType(type) ==
    IF type = 130 THEN "FirmwareVersion" ELSE "ConfigTable"

\* C12: handling a report with the fixed report id and request type 0x82
\* or 0xB0 leaves the mailbox as it was and puts exactly one entry, of the
\* matching kind, at the tail of the response queue, behind the entries it
\* already had, whatever the other bytes are; handling a SetEffect report
\* with a known effect code or a SetDirectLeds report leaves the response
\* queue as it was and latches the decoded command.
C12_RequestRouting ==
    [][(last_op'.op = "poll" /\ last_op'.pulled = "Ok"
            /\ last_op'.report[0] = 236)
          => /\ last_op'.report[1] \in {130, 176} =>
                   /\ ~aborted'
                   /\ next_message' = next_message
                   /\ last_op'.mid_rdy # <<>>
                   /\ last_op'.mid_rdy[Len(last_op'.mid_rdy)] =
                          [kind |-> KindOfRequestType(last_op'.report[1]),
                           req |-> nrequests + 1]
                   /\ \A k \in 1..(Len(last_op'.mid_rdy) - 1) :
                          last_op'.mid_rdy[k].req <= nrequests
                   /\ Len(data_rdy) < 4 =>
                          SubSeq(last_op'.mid_rdy, 1,
                                 Len(last_op'.mid_rdy) - 1) = data_rdy
             /\ (\/ last_op'.report[1] = 64
                 \/ /\ last_op'.report[1] = 59
                    /\ last_op'.report[4] \in (0..14) \cup {255}) =>
                   /\ ~aborted'
                   /\ last_op'.mid_rdy = data_rdy
                   /\ next_message' # None
                   /\ next_message' = Decoded(last_op'.report)]_vars

\* A firmware-version request whose other bytes look like a SetDirectLeds
\* command was handled while a SetEffect command was latched: the command
\* is still latched and the request is pending.
C12_Witness ==
    /\ HandledType(130)
    /\ last_op.report[2] = 129
    /\ last_op.report[4] = 255
    /\ next_message.tag = "SetEffect"
    /\ last_op.mid_rdy = <<[kind |-> "FirmwareVersion", req |-> 1]>>
    /\ data_rdy = last_op.mid_rdy

\* The effect kinds of the protocol by code: 0..14 in this order, and 0xFF.
EffectKindOfCode(code) ==
    IF code = 255 THEN "Direct"
    ELSE <<"Off", "Static", "Breathing", "Flashing", "SpectrumCycle",
           "Rainbow", "SpectrumCycleBreathing", "ChaseFade",
           "SpectrumCycleChaseFade", "Chase", "SpectrumCycleChase",
           "SpectrumCycleWave", "ChaseRainbowPulse", "RandomFlicker",
           "Music">>[code + 1]

\* C13: after a poll cycle that received a report with byte 0 = 0xEC,
\* byte 1 = 0x3B and a known effect code in byte 4, the mailbox holds
\* SetEffect with channel = byte 2 (all eight bits) and the effect kind of
\* that code, whatever byte 3 and bytes 5..64 are.
C13_SetEffectDecoding ==
    (HandledType(59) /\ last_op.report[4] \in (0..14) \cup {255})
      => /\ ~aborted
         /\ last_op.outcome = "SetEffect"
         /\ next_message =
                [tag |-> "SetEffect", channel |-> last_op.report[2],
                 effect |-> EffectKindOfCode(last_op.report[4])]

\* A report with channel byte 0xFF, effect code 0xFF, a non-zero byte 3 and
\* non-zero bytes 5..64 latched SetEffect{channel 255, Direct}.
C13_Witness ==
    /\ HandledType(59)
    /\ last_op.report[2] = 255
    /\ last_op.report[3] = 9
    /\ last_op.report[4] = 255
    /\ last_op.report[64] # 0
    /\ next_message = [tag |-> "SetEffect", channel |-> 255, effect |-> "Direct"]

\* C14: every report submitted for a FirmwareVersion entry is 64 bytes:
\* 0xEC, 0x02, the 15 bytes of the engine's firmware version string at
\* bytes 2..16, zeros at bytes 17..63; every report submitted for a
\* ConfigTable entry is 64 bytes starting 0xEC, 0x30.
C14_ResponseLayout ==
    last_op.op = "poll" =>
        \A k \in 1..Len(last_op.out) :
            /\ DOMAIN last_op.out[k].bytes = 0..63
            /\ last_op.out[k].bytes[0] = 236
            /\ last_op.out[k].kind = "FirmwareVersion" =>
                  /\ last_op.out[k].bytes[1] = 2
                  /\ Len(firmware_version) = 15
                  /\ \A i \in 2..16 :
                        last_op.out[k].bytes[i] = firmware_version[i - 1]
                  /\ \A i \in 17..63 : last_op.out[k].bytes[i] = 0
            /\ last_op.out[k].kind = "ConfigTable" =>
                  last_op.out[k].bytes[1] = 48

\* An engine constructed with a firmware string other than the default
\* submitted a firmware-version report and then a config-table report.
C14_Witness ==
    /\ last_op.op = "poll"
    /\ firmware_version # <<65, 85, 84, 65, 48, 45, 83, 48, 55, 50, 45, 48, 49, 48, 49>>
    /\ Len(last_op.out) = 2
    /\ last_op.out[1].kind = "FirmwareVersion"
    /\ last_op.out[1].bytes[2] = firmware_version[1]
    /\ last_op.out[2].kind = "ConfigTable"

\* The report an engine just constructed with this firmware string submits
\* for a request of this kind: its mailbox is empty, the request is alone
\* in the queue and its first submission is accepted.
FreshEngineReport(kind, fw) ==
    poll(<<>>, None, fw,
         [ok |-> TRUE,
          report |-> MkReport(236, IF kind = "FirmwareVersion" THEN 130 ELSE 176,
                              0, 0, 0, 0)],
         1, 1, "WouldBlock").out[1].bytes

\* C15: every report submitted for an entry, whatever the mailbox holds,
\* whatever else is queued, however often the entry's submission failed
\* before and whatever reports came earlier, is byte for byte the report a
\* just constructed engine with the same firmware string submits for a
\* request of that kind.
C15_EncodingDeterministic ==
    last_op.op = "poll" =>
        \A k \in 1..Len(last_op.out) :
            last_op.out[k].bytes =
                FreshEngineReport(last_op.out[k].kind, firmware_version)

\* A cycle that received a SetDirectLeds report submitted the answer to a
\* request whose submission had failed in an earlier cycle.
C15_Witness ==
    /\ HandledType(64)
    /\ next_message.tag = "UpdateLeds"
    /\ Len(last_op.out) = 1
    /\ last_op.out[1].req = 1
    /\ last_op.out[1].kind = "FirmwareVersion"

\* C16: for every LED count N in 0..255, with n = min(N, 20), the byte
\* range 5 .. 5 + 3n read from the report lies within the 65 bytes and ends
\* at 65 exactly when n = 20, the colours reinterpreted from it are n, and
\* the poll cycle that received the SetDirectLeds report does not abort and
\* latches n colours.
C16_ExactFit ==
    HandledType(64) =>
        \E n \in {Min(last_op.report[4], 20)} :
            /\ 5 <= 5 + 3 * n
            /\ 5 + 3 * n <= 65
            /\ (n = 20) <=> (5 + 3 * n = 65)
            /\ Len(rgb_from_raw_slice(Slice(last_op.report, 5, 5 + 3 * n))) = n
            /\ ~aborted
            /\ next_message.tag = "UpdateLeds"
            /\ Len(next_message.led_data) = n

\* A report asking for exactly 20 LEDs latched 20 colours, the last of them
\* bytes 62, 63 and 64 of the report.
C16_Witness ==
    /\ HandledType(64)
    /\ last_op.report[4] = 20
    /\ ~aborted
    /\ Len(next_message.led_data) = 20
    /\ next_message.led_data[20] =
           [r |-> last_op.report[62], g |-> last_op.report[63],
            b |-> last_op.report[64]]

\* C17 as stated, for the earlier engine: a poll cycle that received a
\* report with byte 0 = 0xEC, byte 1 = 0x40 and LED count N does not abort
\* and latches UpdateLeds with apply = bit 7 of byte 2, offset = byte 3 and
\* min(N, 20) colours, the i-th being bytes 5+3i, 6+3i, 7+3i of the report.
C17_EarlyDirectLeds ==
    HandledType(64) =>
        /\ ~aborted
        /\ next_message.tag = "UpdateLeds"
        /\ next_message.apply = (last_op.report[2] \div 128 = 1)
        /\ next_message.offset = last_op.report[3]
        /\ Len(next_message.led_data) = Min(last_op.report[4], 20)
        /\ \A i \in 0..(Len(next_message.led_data) - 1) :
              next_message.led_data[i + 1] =
                  [r |-> last_op.report[5 + 3 * i],
                   g |-> last_op.report[6 + 3 * i],
                   b |-> last_op.report[7 + 3 * i]]

\* C18: a response request handled while the response queue holds 4
\* entries leaves it holding the former 2nd, 3rd and 4th entries followed
\* by the new request: the oldest entry is evicted, the new one is kept.
C18_EvictOldest ==
    [][(last_op'.op = "poll" /\ Len(data_rdy) = 4
            /\ IsRequestOutcome(last_op'.outcome))
          => /\ last_op'.mid_rdy =
                    <<data_rdy[2], data_rdy[3], data_rdy[4],
                      [kind |-> IF last_op'.outcome = "FirmwareVersionRequest"
                                THEN "FirmwareVersion" ELSE "ConfigTable",
                       req |-> nrequests + 1]>>
             /\ last_op'.evicted = data_rdy[1].req
             /\ \A k \in 1..4 : last_op'.mid_rdy[k].req # data_rdy[1].req]_vars

\* The fifth request arrived while the first four were pending; the cycle
\* then submitted the answers to requests 2, 3, 4 and 5, and request 1 was
\* not answered.
C18_Witness ==
    /\ last_op.op = "poll"
    /\ last_op.req = 5
    /\ last_op.evicted = 1
    /\ Len(last_op.out) = 4
    /\ \A k \in 1..4 : last_op.out[k].req = k + 1
    /\ data_rdy = <<>>

\* C19: the response queue is empty at construction, and in every poll
\* cycle: the queue is non-empty at the end only if a submission attempt of
\* this cycle failed; a cycle that starts with the queue empty never holds
\* more than one entry; and a cycle that starts with the queue empty and
\* meets no failed submission ends with the queue empty, having submitted
\* the answer to the request it received, if any, and nothing else.  So
\* while every submission is accepted, each cycle starts with the queue
\* empty, answers its request itself and never holds two entries.
C19_SameCycleDrain ==
    /\ data_rdy = <<>>
    /\ [][last_op'.op = "poll"
             => /\ data_rdy' # <<>> =>
                      /\ last_op'.drain \in PushErrors
                      /\ last_op'.attempts = Len(last_op'.out) + 1
                /\ data_rdy = <<>> =>
                      /\ Len(last_op'.mid_rdy) <= 1
                      /\ last_op'.drain = "Ok" =>
                            /\ data_rdy' = <<>>
                            /\ Len(last_op'.out) =
                                   (IF IsRequestOutcome(last_op'.outcome)
                                    THEN 1 ELSE 0)
                            /\ \A k \in 1..Len(last_op'.out) :
                                   /\ last_op'.out[k].req = nrequests + 1
                                   /\ last_op'.out[k].req = last_op'.req]_vars

\* The third request was received with the queue empty and answered in the
\* cycle that received it.
C19_Witness ==
    /\ last_op.op = "poll"
    /\ last_op.req = 3
    /\ last_op.drain = "Ok"
    /\ Len(last_op.mid_rdy) = 1
    /\ Len(last_op.out) = 1
    /\ last_op.out[1].req = 3
    /\ data_rdy = <<>>

\* C20: for each kind, the reports submitted never outnumber the requests
\* accepted; every report a poll cycle submits answers a request accepted
\* and not answered before, and no entry left in the queue has been
\* answered.
C20_AtMostOnce ==
    [][/\ \A kind \in RogTerminalReadyData : owed'[kind] >= 0
       /\ last_op'.op = "poll" =>
             /\ \A k \in 1..Len(last_op'.out) :
                   /\ last_op'.out[k].req > last_sent
                   /\ last_op'.out[k].req <= nrequests'
                   /\ \A j \in 1..(k - 1) :
                         last_op'.out[j].req # last_op'.out[k].req
                   /\ last_op'.out[k].bytes[1] =
                         (IF last_op'.out[k].kind = "FirmwareVersion"
                          THEN 2 ELSE 48)
             /\ \A k \in 1..Len(data_rdy') :
                   /\ data_rdy'[k].req > last_sent'
                   /\ \A j \in 1..Len(last_op'.out) :
                         last_op'.out[j].req # data_rdy'[k].req]_vars

\* Two requests of different kinds, whose submissions had failed, were both
\* answered in a cycle that received no report: every accepted request has
\* been answered exactly once.
C20_Witness ==
    /\ last_op.op = "poll"
    /\ last_op.pulled = "WouldBlock"
    /\ nrequests = 2
    /\ Len(last_op.out) = 2
    /\ last_op.out[1].req = 1
    /\ last_op.out[1].kind # last_op.out[2].kind
    /\ owed = [kind \in RogTerminalReadyData |-> 0]
    /\ data_rdy = <<>>

====
